---- MODULE Spec2Model ----
(***************************************************************************)
(* Batch resolution of crate-checker: the batch validation of utils.rs,    *)
(* the batch functions of CrateClient (client.rs), and the two callers of  *)
(* them, the CLI batch command (cli.rs) and the HTTP /api/batch handler    *)
(* (server.rs), run against a registry whose answers are part of the       *)
(* state.                                                                  *)
(*                                                                         *)
(* Conventions.  A crate name is a sequence of characters.  Option<T> is a *)
(* set with at most one element: None is {} and Some(x) is {x}.  A         *)
(* Result<T> is a record [ok, val, err].  Wall-clock readings that only    *)
(* feed log lines and processing_time_ms are left out of BatchResult; the  *)
(* elapsed time handed to the metrics is an input of the HTTP handler.     *)
(***************************************************************************)
EXTENDS Integers, Sequences, FiniteSets, TLC

VARIABLES
    upstream,   \* the registry: for each registered name, how it answers
    metrics,    \* ServerMetrics of the HTTP server
    last,       \* the most recent batch call and what it returned
    prev,       \* the call before `last`, when it was the same request
    config,     \* AppState.config.cache: enabled, ttl_seconds, max_entries
    shard_of,   \* the shard of AppState.cache each key hashes to
    cache,      \* AppState.cache: key -> CacheEntry
    now,        \* the reading of Instant::now(), in seconds
    held,       \* the keys whose map reference a stuck lookup still holds
    served,     \* the most recent single-item request or cache call
    tasks,      \* the ServerMetrics calls in progress, one per thread
    finished,   \* how many record_request calls have returned
    snapshot,   \* the MetricsResponse a get_metrics call is reading
    command,    \* the most recent client call or check-multiple command
    checked,    \* the most recent process_single_crate_check call on its own
    run         \* a batch call in progress: its queries, results, call in flight

server_vars == <<config, shard_of, cache, now, held, served>>
thread_vars == <<tasks, finished, snapshot>>
cli_vars == <<command, checked, run>>

vars == <<upstream, metrics, last, prev, config, shard_of, cache, now, held, served, tasks,
          finished, snapshot, command, checked, run>>

----------------------------------------------------------------------------
(* Bounds of the model *)

\* longest `crates` list of a CrateList input and most keys of a version map
MaxList == 2
\* most operations of an Operations input
MaxOps == 2
\* most batch requests the HTTP server handles
MaxRequests == 2

----------------------------------------------------------------------------
(* Option and sequence helpers *)

None == {}
Some(x) == {x}

RECURSIVE Flatten(_)
Flatten(ss) == IF ss = <<>> THEN <<>> ELSE Head(ss) \o Flatten(Tail(ss))

Range(s) == {s[i] : i \in 1..Len(s)}

Reverse(s) == [i \in 1..Len(s) |-> s[Len(s) + 1 - i]]

\* every ordering of the elements of a finite set
Orderings(S) ==
    {o \in [1..Cardinality(S) -> S] : \A i, j \in 1..Cardinality(S) : o[i] = o[j] => i = j}

----------------------------------------------------------------------------
(* Crate names and versions the model draws its inputs from *)

EmptyName == <<>>
NameA == <<"a">>
NameB == <<"b", "-", "0">>
NameBad == <<"a", "@">>

CrateNames == {EmptyName, NameA, NameB, NameBad}
\* the names used as keys of a version map
MapKeys == {EmptyName, NameA, NameB}
RegistryNames == {NameA, NameB}

VersionStrings == {"", "1.0.0", "latest"}

----------------------------------------------------------------------------
(* client.rs: validate_crate_name *)

\* char::is_alphanumeric is the Unicode property: it holds for ASCII letters
\* and digits and also for letters such as U+00E9, written "e_acute" here
is_alphanumeric(c) == c \in {"a", "b", "A", "0", "e_acute", "arabic_3"}

\* UTF-8 length of a character: str::len counts bytes
len_utf8(c) == IF c \in {"e_acute", "arabic_3"} THEN 2 ELSE 1

RECURSIVE str_len(_)
str_len(name) == IF name = <<>> THEN 0 ELSE len_utf8(Head(name)) + str_len(Tail(name))

MaxCrateNameLen == 64

Ok(v) == [ok |-> TRUE, val |-> v, err |-> ""]
Err(e) == [ok |-> FALSE, val |-> FALSE, err |-> e]

validate_crate_name(name) ==
    IF name = <<>> THEN Err("invalid_crate_name")
    ELSE IF str_len(name) > MaxCrateNameLen THEN Err("invalid_crate_name")
    ELSE IF ~ \A i \in 1..Len(name) : is_alphanumeric(name[i]) \/ name[i] = "-" \/ name[i] = "_"
         THEN Err("invalid_crate_name")
    ELSE Ok(TRUE)

----------------------------------------------------------------------------
(* The registry.  exists: how GET /crates/{name} answers the existence      *)
(* check ("found" = 200, "notfound" = 404, "timeout" = the request fails); *)
(* info: whether the metadata fetch succeeds; versions_ok / versions: the   *)
(* answer of GET /crates/{name}/versions, as the list of version numbers.  *)

Response(e, i, vo, vs) == [exists |-> e, info |-> i, versions_ok |-> vo, versions |-> vs]

Responses ==
    { Response("notfound", FALSE, FALSE, <<>>),
      Response("timeout", FALSE, FALSE, <<>>) }
    \cup { Response("found", i, vo, IF vo THEN <<"1.0.0">> ELSE <<>>) : i \in BOOLEAN, vo \in BOOLEAN }

NewestVersion == "2.0.0"

\* an upstream call: the result it gives and the requests it sent
Reply(res, calls) == [res |-> res, calls |-> calls]

\* `self.validate_crate_name(crate_name)?` in front of a request: an invalid
\* name returns the validation error and sends nothing
validated(v, reply) == IF v.ok THEN reply ELSE Reply(v, <<>>)

exists_answer(response) ==
    CASE response.exists = "found" -> Ok(TRUE)
      [] response.exists = "notfound" -> Ok(FALSE)
      [] OTHER -> Err("timeout")

crate_exists(crate_name, up) ==
    validated(validate_crate_name(crate_name),
              Reply(IF crate_name \in DOMAIN up THEN exists_answer(up[crate_name]) ELSE Ok(FALSE),
                    << <<"exists", crate_name>> >>))

get_crate_info(crate_name, up) ==
    validated(validate_crate_name(crate_name),
              Reply(IF crate_name \in DOMAIN up /\ up[crate_name].info
                    THEN Ok([name |-> crate_name, newest_version |-> NewestVersion])
                    ELSE Err("request_failed"),
                    << <<"info", crate_name>> >>))

get_all_versions(crate_name, up) ==
    validated(validate_crate_name(crate_name),
              Reply(IF crate_name \in DOMAIN up /\ up[crate_name].versions_ok
                    THEN Ok(up[crate_name].versions)
                    ELSE Err("request_failed"),
                    << <<"versions", crate_name>> >>))

----------------------------------------------------------------------------
(* client.rs: process_single_crate_check *)

CrateCheckResult(n, e, lv, rv, ve, er, inf) ==
    [crate_name |-> n, exists |-> e, latest_version |-> lv, requested_version |-> rv,
     version_exists |-> ve, error |-> er, info |-> inf]

\* process_single_crate_check fetching the metadata of a crate that does not exist
single_crate_check_fetches_missing(crate_name, requested_version, ex, gi, gv) ==
    IF ex.res.ok THEN
        IF ~ex.res.val
        THEN Reply(CrateCheckResult(crate_name, FALSE, None, requested_version, None, None, None),
                   ex.calls \o gi.calls)
        ELSE LET info == IF gi.res.ok THEN Some(gi.res.val) ELSE None
                 latest_version == {i.newest_version : i \in info}
                 asked == requested_version # None /\ requested_version # Some("latest")
                 version_exists ==
                     IF requested_version # None
                     THEN IF requested_version = Some("latest") THEN Some(TRUE)
                          ELSE IF gv.res.ok
                               THEN Some(\E i \in 1..Len(gv.res.val) : Some(gv.res.val[i]) = requested_version)
                               ELSE None
                     ELSE None
             IN Reply(CrateCheckResult(crate_name, TRUE, latest_version, requested_version,
                                       version_exists, None, info),
                      ex.calls \o gi.calls \o (IF asked THEN gv.calls ELSE <<>>))
    ELSE Reply(CrateCheckResult(crate_name, FALSE, None, requested_version, None,
                                Some(ex.res.err), None),
               ex.calls)

\* process_single_crate_check turning a failed metadata fetch into a failed check
single_crate_check_info_failure_hard(crate_name, requested_version, ex, gi, gv) ==
    IF ex.res.ok THEN
        IF ~ex.res.val
        THEN Reply(CrateCheckResult(crate_name, FALSE, None, requested_version, None, None, None),
                   ex.calls)
        ELSE LET info == IF gi.res.ok THEN Some(gi.res.val) ELSE None
                 latest_version == {i.newest_version : i \in info}
                 asked == requested_version # None /\ requested_version # Some("latest")
                 version_exists ==
                     IF requested_version # None
                     THEN IF requested_version = Some("latest") THEN Some(TRUE)
                          ELSE IF gv.res.ok
                               THEN Some(\E i \in 1..Len(gv.res.val) : Some(gv.res.val[i]) = requested_version)
                               ELSE None
                     ELSE None
             IN Reply(CrateCheckResult(crate_name, gi.res.ok, latest_version, requested_version,
                                       version_exists,
                                       IF gi.res.ok THEN None ELSE Some(gi.res.err), info),
                      ex.calls \o gi.calls \o (IF asked THEN gv.calls ELSE <<>>))
    ELSE Reply(CrateCheckResult(crate_name, FALSE, None, requested_version, None,
                                Some(ex.res.err), None),
               ex.calls)

\* process_single_crate_check looking "latest" up in the version list
single_crate_check_latest_listed(crate_name, requested_version, ex, gi, gv) ==
    IF ex.res.ok THEN
        IF ~ex.res.val
        THEN Reply(CrateCheckResult(crate_name, FALSE, None, requested_version, None, None, None),
                   ex.calls)
        ELSE LET info == IF gi.res.ok THEN Some(gi.res.val) ELSE None
                 latest_version == {i.newest_version : i \in info}
                 asked == requested_version # None
                 version_exists ==
                     IF requested_version # None
                     THEN IF FALSE THEN Some(TRUE)
                          ELSE IF gv.res.ok
                               THEN Some(\E i \in 1..Len(gv.res.val) : Some(gv.res.val[i]) = requested_version)
                               ELSE None
                     ELSE None
             IN Reply(CrateCheckResult(crate_name, TRUE, latest_version, requested_version,
                                       version_exists, None, info),
                      ex.calls \o gi.calls \o (IF asked THEN gv.calls ELSE <<>>))
    ELSE Reply(CrateCheckResult(crate_name, FALSE, None, requested_version, None,
                                Some(ex.res.err), None),
               ex.calls)

\* process_single_crate_check answering version_exists = false for a missing crate
single_crate_check_missing_version_false(crate_name, requested_version, ex, gi, gv) ==
    IF ex.res.ok THEN
        IF ~ex.res.val
        THEN Reply(CrateCheckResult(crate_name, FALSE, None, requested_version,
                                    IF requested_version # None THEN Some(FALSE) ELSE None,
                                    None, None),
                   ex.calls)
        ELSE LET info == IF gi.res.ok THEN Some(gi.res.val) ELSE None
                 latest_version == {i.newest_version : i \in info}
                 asked == requested_version # None /\ requested_version # Some("latest")
                 version_exists ==
                     IF requested_version # None
                     THEN IF requested_version = Some("latest") THEN Some(TRUE)
                          ELSE IF gv.res.ok
                               THEN Some(\E i \in 1..Len(gv.res.val) : Some(gv.res.val[i]) = requested_version)
                               ELSE None
                     ELSE None
             IN Reply(CrateCheckResult(crate_name, TRUE, latest_version, requested_version,
                                       version_exists, None, info),
                      ex.calls \o gi.calls \o (IF asked THEN gv.calls ELSE <<>>))
    ELSE Reply(CrateCheckResult(crate_name, FALSE, None, requested_version, None,
                                Some(ex.res.err), None),
               ex.calls)

\* the body of process_single_crate_check; ex, gi and gv are what crate_exists,
\* get_crate_info and get_all_versions give when the body reaches them
single_crate_check(crate_name, requested_version, ex, gi, gv) ==
    IF ex.res.ok THEN
        IF ~ex.res.val
        THEN Reply(CrateCheckResult(crate_name, FALSE, None, requested_version, None, None, None),
                   ex.calls)
        ELSE LET info == IF gi.res.ok THEN Some(gi.res.val) ELSE None
                 latest_version == {i.newest_version : i \in info}
                 asked == requested_version # None /\ requested_version # Some("latest")
                 version_exists ==
                     IF requested_version # None
                     THEN IF requested_version = Some("latest") THEN Some(TRUE)
                          ELSE IF gv.res.ok
                               THEN Some(\E i \in 1..Len(gv.res.val) : Some(gv.res.val[i]) = requested_version)
                               ELSE None
                     ELSE None
             IN Reply(CrateCheckResult(crate_name, TRUE, latest_version, requested_version,
                                       version_exists, None, info),
                      ex.calls \o gi.calls \o (IF asked THEN gv.calls ELSE <<>>))
    ELSE Reply(CrateCheckResult(crate_name, FALSE, None, requested_version, None,
                                Some(ex.res.err), None),
               ex.calls)

process_single_crate_check(crate_name, requested_version, up) ==
    single_crate_check(crate_name, requested_version, crate_exists(crate_name, up),
                       get_crate_info(crate_name, up), get_all_versions(crate_name, up))

----------------------------------------------------------------------------
(* types.rs: BatchInput, BatchOperation, BatchTarget, BatchResult *)

Single(n, v) == [kind |-> "single", crate_name |-> n, version |-> v, crates |-> <<>>]
Multiple(cs) == [kind |-> "multiple", crate_name |-> <<>>, version |-> None, crates |-> cs]
BatchOperation(t, o) == [target |-> t, operation |-> o]

CrateVersionMap(m) == [shape |-> "map", map |-> m, crates |-> <<>>, operations |-> <<>>]
CrateList(cs) == [shape |-> "list", map |-> <<>>, crates |-> cs, operations |-> <<>>]
Operations(ops) == [shape |-> "ops", map |-> <<>>, crates |-> <<>>, operations |-> ops]

BatchResult(rs, t, s, f) == [results |-> rs, total_processed |-> t, successful |-> s, failed |-> f]
BatchResponse(st, r) == [status |-> st, result |-> r]

----------------------------------------------------------------------------
(* utils.rs: validate_batch_input *)

\* validate_batch_input without the check of the operation label
validate_batch_input_no_label(input) ==
    CASE input.shape = "map" ->
            IF DOMAIN input.map = {} THEN Err("validation_error")
            ELSE IF \E k \in DOMAIN input.map : k = <<>> \/ input.map[k] = ""
                 THEN Err("validation_error")
                 ELSE Ok(TRUE)
      [] input.shape = "list" ->
            IF input.crates = <<>> THEN Err("validation_error")
            ELSE IF \E i \in 1..Len(input.crates) : input.crates[i] = <<>>
                 THEN Err("validation_error")
                 ELSE Ok(TRUE)
      [] OTHER ->
            IF input.operations = <<>> THEN Err("validation_error") ELSE Ok(TRUE)

validate_batch_input(input) ==
    CASE input.shape = "map" ->
            IF DOMAIN input.map = {} THEN Err("validation_error")
            ELSE IF \E k \in DOMAIN input.map : k = <<>> \/ input.map[k] = ""
                 THEN Err("validation_error")
                 ELSE Ok(TRUE)
      [] input.shape = "list" ->
            IF input.crates = <<>> THEN Err("validation_error")
            ELSE IF \E i \in 1..Len(input.crates) : input.crates[i] = <<>>
                 THEN Err("validation_error")
                 ELSE Ok(TRUE)
      [] OTHER ->
            IF input.operations = <<>> THEN Err("validation_error")
            ELSE IF \E i \in 1..Len(input.operations) : input.operations[i].operation = ""
                 THEN Err("validation_error")
                 ELSE Ok(TRUE)

----------------------------------------------------------------------------
(* client.rs: the three batch functions.  Each gives the Result it returns  *)
(* and the upstream requests it sent, in order.  `checks` is the sequence   *)
(* of process_single_crate_check calls the function's loop makes.           *)

ResultsOfChecks(checks) == [i \in 1..Len(checks) |-> checks[i].res]
CallsOfChecks(checks) == Flatten([i \in 1..Len(checks) |-> checks[i].calls])

\* the first position of `checks` whose result has its error set, 0 if none
FirstError(checks) ==
    IF \A i \in 1..Len(checks) : checks[i].res.error = None THEN 0
    ELSE CHOOSE i \in 1..Len(checks) :
             /\ checks[i].res.error # None
             /\ \A j \in 1..(i - 1) : checks[j].res.error = None

\* process_crate_list propagating the first failed check with `?`
crate_list_loop_abort(checks) ==
    IF FirstError(checks) = 0 THEN Reply(Ok(ResultsOfChecks(checks)), CallsOfChecks(checks))
    ELSE Reply(Err("check_failed"), CallsOfChecks(SubSeq(checks, 1, FirstError(checks))))

crate_list_loop(checks) == Reply(Ok(ResultsOfChecks(checks)), CallsOfChecks(checks))

process_crate_list(crates, up) ==
    crate_list_loop([i \in 1..Len(crates) |-> process_single_crate_check(crates[i], None, up)])

version_opt(version) == IF version = "latest" THEN None ELSE Some(version)

version_map_loop(total_count, checks) ==
    LET results == ResultsOfChecks(checks)
        successful == Cardinality({i \in 1..Len(results) :
                                      results[i].error = None /\ results[i].exists})
        failed == Cardinality({i \in 1..Len(results) :
                                  ~(results[i].error = None /\ results[i].exists)})
    IN Reply(Ok(BatchResult(results, total_count, successful, failed)), CallsOfChecks(checks))

\* `order` is the order in which HashMap::iter visits the keys of `input`
process_crate_version_map(input, order, up) ==
    version_map_loop(Cardinality(DOMAIN input),
                     [i \in 1..Len(order) |->
                         process_single_crate_check(order[i], version_opt(input[order[i]]), up)])

\* operation_checks visiting the crates of a Multiple target back to front
operation_checks_reversed(operation, up) ==
    IF operation.target.kind = "single"
    THEN << process_single_crate_check(operation.target.crate_name, operation.target.version, up) >>
    ELSE Reverse([j \in 1..Len(operation.target.crates) |->
                     process_single_crate_check(operation.target.crates[j], None, up)])

\* the checks one operation runs, in order
operation_checks(operation, up) ==
    IF operation.target.kind = "single"
    THEN << process_single_crate_check(operation.target.crate_name, operation.target.version, up) >>
    ELSE [j \in 1..Len(operation.target.crates) |->
             process_single_crate_check(operation.target.crates[j], None, up)]

\* process_batch_operations reporting the number of results as total_processed
operations_loop_counts_results(total_count, checks) ==
    LET all_results == ResultsOfChecks(checks)
        successful == Cardinality({i \in 1..Len(all_results) : all_results[i].error = None})
        failed == Len(all_results) - successful
    IN Reply(Ok(BatchResponse("completed",
                              BatchResult(all_results, Len(all_results), successful, failed))),
             CallsOfChecks(checks))

operations_loop(total_count, checks) ==
    LET all_results == ResultsOfChecks(checks)
        successful == Cardinality({i \in 1..Len(all_results) : all_results[i].error = None})
        failed == Len(all_results) - successful
    IN Reply(Ok(BatchResponse("completed",
                              BatchResult(all_results, total_count, successful, failed))),
             CallsOfChecks(checks))

process_batch_operations(operations, up) ==
    operations_loop(Len(operations),
                    Flatten([i \in 1..Len(operations) |-> operation_checks(operations[i], up)]))

----------------------------------------------------------------------------
(* cli.rs: handle_batch, from the validation of the parsed input on.  The  *)
(* outcome holds what the command prints (result), the Result the client   *)
(* function gave (client) and the upstream requests sent (calls).          *)

Outcome(st, r, c, calls) == [status |-> st, result |-> r, client |-> c, calls |-> calls]

Rejected == Outcome("validation_error", None, Err("not_called"), <<>>)

\* `client.process_...(..).await?` and the BatchResult the arm builds from it
version_map_arm(r) ==
    IF r.res.ok THEN Outcome("ok", Some(r.res.val), r.res, r.calls)
    ELSE Outcome("error", None, r.res, r.calls)

cli_crate_list_arm(r) ==
    IF r.res.ok THEN Outcome("ok", Some(BatchResult(r.res.val, 0, 0, 0)), r.res, r.calls)
    ELSE Outcome("error", None, r.res, r.calls)

operations_arm(r) ==
    IF r.res.ok THEN Outcome("ok", Some(r.res.val.result), r.res, r.calls)
    ELSE Outcome("error", None, r.res, r.calls)

cli_dispatch(batch_input, order, up) ==
    CASE batch_input.shape = "map" ->
            version_map_arm(process_crate_version_map(batch_input.map, order, up))
      [] batch_input.shape = "list" ->
            cli_crate_list_arm(process_crate_list(batch_input.crates, up))
      [] OTHER ->
            operations_arm(process_batch_operations(batch_input.operations, up))

\* the results of a returned outcome, last query first
CompletionOrder(out) ==
    IF out.status = "ok"
    THEN [out EXCEPT !.result = {[r EXCEPT !.results = Reverse(r.results)] : r \in out.result}]
    ELSE out

\* handle_batch whose parallel mode collects results as they complete, the
\* last query first
cli_handle_batch_completion_order(batch_input, parallel, order, up) ==
    IF ~validate_batch_input(batch_input).ok THEN Rejected
    ELSE IF parallel THEN CompletionOrder(cli_dispatch(batch_input, order, up))
    ELSE cli_dispatch(batch_input, order, up)

cli_handle_batch(batch_input, parallel, order, up) ==
    IF ~validate_batch_input(batch_input).ok THEN Rejected
    ELSE cli_dispatch(batch_input, order, up)

----------------------------------------------------------------------------
(* server.rs: ServerMetrics::record_request and handle_batch *)

record_request(m, success, response_time_ms) ==
    [requests_total |-> m.requests_total + 1,
     total_response_time_ms |-> m.total_response_time_ms + response_time_ms,
     requests_successful |-> m.requests_successful + (IF success THEN 1 ELSE 0),
     requests_failed |-> m.requests_failed + (IF success THEN 0 ELSE 1),
     cache_hits |-> m.cache_hits,
     cache_misses |-> m.cache_misses]

http_crate_list_arm(r) ==
    LET results == r.res.val
        successful == Cardinality({i \in 1..Len(results) : results[i].error = None})
        failed == Len(results) - successful
        total_processed == Len(results)
    IN IF r.res.ok
       THEN Outcome("ok", Some(BatchResult(results, total_processed, successful, failed)),
                    r.res, r.calls)
       ELSE Outcome("error", None, r.res, r.calls)

http_dispatch(input, order, up) ==
    CASE input.shape = "map" ->
            version_map_arm(process_crate_version_map(input.map, order, up))
      [] input.shape = "list" ->
            http_crate_list_arm(process_crate_list(input.crates, up))
      [] OTHER ->
            operations_arm(process_batch_operations(input.operations, up))

http_handle_batch(input, parallel, order, up) ==
    IF ~validate_batch_input(input).ok THEN Rejected
    ELSE http_dispatch(input, order, up)

----------------------------------------------------------------------------
(* server.rs: the response cache.  AppState.cache is a DashMap: a lookup    *)
(* (get) gives a reference that keeps the read lock of the key's shard      *)
(* until it is dropped; remove, insert and retain take the write lock of    *)
(* each shard they touch, and wait for as long as a reference into that     *)
(* shard is held.  Readers share a shard.  A map operation gives the map it *)
(* leaves and whether it returned.                                          *)

\* the last reading of the clock, in seconds
MaxTime == 2
\* the shards of the map, in the order retain visits them
ShardIds == {1, 2}

TtlChoices == {1, 2}
MaxEntriesChoices == {1}

CacheConfig(e, t, m) == [enabled |-> e, ttl_seconds |-> t, max_entries |-> m]
Configs == {CacheConfig(e, t, m) : e \in BOOLEAN, t \in TtlChoices, m \in MaxEntriesChoices}

CacheEntry(data, expires_at) == [data |-> data, expires_at |-> expires_at]

EmptyCache == [k \in {} |-> CacheEntry(<<>>, 0)]

MapOp(c, returned) == [cache |-> c, returned |-> returned]

\* a write lock on the shard of `key` waits while `refs` holds a reference
\* into that shard
write_waits(shards, refs, key) == \E k \in refs : shards[k] = shards[key]

remove(c, key, shards, refs) ==
    IF write_waits(shards, refs, key) THEN MapOp(c, FALSE)
    ELSE MapOp([k \in DOMAIN c \ {key} |-> c[k]], TRUE)

insert(c, key, entry, shards, refs) ==
    IF write_waits(shards, refs, key) THEN MapOp(c, FALSE)
    ELSE MapOp([k \in DOMAIN c \cup {key} |-> IF k = key THEN entry ELSE c[k]], TRUE)

\* the first shard, in index order, that `refs` holds a reference into
first_held(shards, refs) ==
    IF refs = {} THEN Cardinality(ShardIds) + 1
    ELSE CHOOSE i \in ShardIds :
             /\ \E k \in refs : shards[k] = i
             /\ \A k \in refs : shards[k] >= i

\* retain(|_, entry| entry.expires_at > now): the shards are swept one after
\* the other, each under its write lock
retain(c, t, shards, refs) ==
    MapOp([k \in {j \in DOMAIN c : shards[j] >= first_held(shards, refs) \/ c[j].expires_at > t}
              |-> c[k]],
          refs = {})

Lookup(ret, op) == [ret |-> ret, cache |-> op.cache, returned |-> op.returned]

get_from_cache(cfg, c, key, t, shards, refs) ==
    IF ~cfg.enabled THEN Lookup(None, MapOp(c, TRUE))
    ELSE IF key \in DOMAIN c
         THEN IF c[key].expires_at > t THEN Lookup(Some(c[key]), MapOp(c, TRUE))
              \* `entry`, the reference `get` gave, is alive during the remove
              ELSE Lookup(None, remove(c, key, shards, refs \cup {key}))
         ELSE Lookup(None, MapOp(c, TRUE))

set_cache_insert(cfg, swept, key, data, t, shards, refs) ==
    IF swept.returned
    THEN insert(swept.cache, key, CacheEntry(data, t + cfg.ttl_seconds), shards, refs)
    ELSE swept

\* set_cache without the test of config.cache.enabled
set_cache_always(cfg, c, key, data, t, shards, refs) ==
    set_cache_insert(cfg,
                     IF Cardinality(DOMAIN c) > cfg.max_entries THEN retain(c, t, shards, refs)
                     ELSE MapOp(c, TRUE),
                     key, data, t, shards, refs)

\* set_cache sweeping as soon as the map holds max_entries entries
set_cache_sweeps_at_limit(cfg, c, key, data, t, shards, refs) ==
    IF ~cfg.enabled THEN MapOp(c, TRUE)
    ELSE set_cache_insert(cfg,
                          IF Cardinality(DOMAIN c) >= cfg.max_entries
                          THEN retain(c, t, shards, refs)
                          ELSE MapOp(c, TRUE),
                          key, data, t, shards, refs)

set_cache(cfg, c, key, data, t, shards, refs) ==
    IF ~cfg.enabled THEN MapOp(c, TRUE)
    ELSE set_cache_insert(cfg,
                          IF Cardinality(DOMAIN c) > cfg.max_entries
                          THEN retain(c, t, shards, refs)
                          ELSE MapOp(c, TRUE),
                          key, data, t, shards, refs)

----------------------------------------------------------------------------
(* server.rs: the cache keys of the handlers and the JSON values stored.    *)
(* A key is the character sequence format! builds; a version string is one  *)
(* token of it.  A serde_json::Value of a struct is the object of its       *)
(* fields, an Option field being null (<<>>) or the value (<<x>>).          *)

info_key(name) == <<"crate", ":">> \o name
version_key(name, version) == <<"crate", ":">> \o name \o <<":", version>>

json_option(o) == IF o = None THEN <<>> ELSE <<CHOOSE x \in o : TRUE>>
option_json(j) == IF j = <<>> THEN None ELSE Some(j[1])

to_value_CrateInfo(info) == [name |-> info.name, newest_version |-> info.newest_version]

to_value_CrateCheckResult(r) ==
    [crate_name |-> r.crate_name, exists |-> r.exists,
     latest_version |-> json_option(r.latest_version),
     requested_version |-> json_option(r.requested_version),
     version_exists |-> json_option(r.version_exists),
     error |-> json_option(r.error),
     info |-> json_option({to_value_CrateInfo(i) : i \in r.info})]

from_value_CrateInfo(v) ==
    IF {"name", "newest_version"} \subseteq DOMAIN v
    THEN Ok([name |-> v.name, newest_version |-> v.newest_version])
    ELSE Err("json_error")

from_value_CrateCheckResult(v) ==
    IF {"crate_name", "exists"} \subseteq DOMAIN v
    THEN Ok(CrateCheckResult(v.crate_name, v.exists, option_json(v.latest_version),
                             option_json(v.requested_version), option_json(v.version_exists),
                             option_json(v.error),
                             {i.val : i \in {from_value_CrateInfo(x) : x \in option_json(v.info)}}))
    ELSE Err("json_error")

----------------------------------------------------------------------------
(* server.rs: the single-item handlers.  A handler gives whether it         *)
(* answered (it does not when a cache operation never returns), whether it  *)
(* served from the cache, the body it answered with (Ok: 200, Err: an        *)
(* AppError), the upstream requests it sent, the map and the metrics it     *)
(* leaves, and the keys whose reference it still holds.                     *)

record_cache_hit(m) == [m EXCEPT !.cache_hits = m.cache_hits + 1]
record_cache_miss(m) == [m EXCEPT !.cache_misses = m.cache_misses + 1]

Handled(returned, hit, body, calls, c, m, holds) ==
    [returned |-> returned, hit |-> hit, body |-> body, calls |-> calls, cache |-> c,
     metrics |-> m, holds |-> holds]

NoResponse == Err("no_response")

\* the lookup found an expired entry and waits in `remove`, holding `key`
stuck_lookup(lookup, key, m) == Handled(FALSE, FALSE, NoResponse, <<>>, lookup.cache, m, {key})

\* a handler that never stores its result
cache_result_skipped(cfg, c, key, data, t, shards, refs) == MapOp(c, TRUE)

\* the `if state.config.cache.enabled { set_cache(..) }` of a handler
cache_result(cfg, c, key, data, t, shards, refs) ==
    IF cfg.enabled THEN set_cache(cfg, c, key, data, t, shards, refs) ELSE MapOp(c, TRUE)

\* the end of a handler that cached its result: record_request and the answer
respond_cached(stored, success, body, calls, m, elapsed) ==
    IF stored.returned
    THEN Handled(TRUE, FALSE, body, calls, stored.cache, record_request(m, success, elapsed), {})
    ELSE Handled(FALSE, FALSE, NoResponse, calls, stored.cache, m, {})

get_crate_miss(key, info, cfg, c, t, shards, refs, m, elapsed) ==
    IF info.res.ok
    THEN respond_cached(cache_result(cfg, c, key, to_value_CrateInfo(info.res.val), t, shards, refs),
                        TRUE, info.res, info.calls, m, elapsed)
    ELSE Handled(TRUE, FALSE, info.res, info.calls, c, record_request(m, FALSE, elapsed), {})

get_crate_lookup(lookup, key, info, cfg, t, shards, refs, m, elapsed) ==
    IF ~lookup.returned THEN stuck_lookup(lookup, key, m)
    ELSE IF lookup.ret # None
    THEN Handled(TRUE, TRUE, from_value_CrateInfo((CHOOSE e \in lookup.ret : TRUE).data), <<>>,
                 lookup.cache, record_request(record_cache_hit(m), TRUE, elapsed), {})
    ELSE get_crate_miss(key, info, cfg, lookup.cache, t, shards, refs, record_cache_miss(m),
                        elapsed)

get_crate(name, cfg, c, t, shards, refs, m, up, elapsed) ==
    get_crate_lookup(get_from_cache(cfg, c, info_key(name), t, shards, refs), info_key(name),
                     get_crate_info(name, up), cfg, t, shards, refs, m, elapsed)

\* the CrateCheckResult get_crate_version builds, with the requests it took
latest_result(name, version, info) ==
    IF info.res.ok
    THEN Reply(CrateCheckResult(name, TRUE, Some(info.res.val.newest_version), Some("latest"),
                                Some(TRUE), None, Some(info.res.val)),
               info.calls)
    ELSE Reply(CrateCheckResult(name, FALSE, None, Some(version), None, Some(info.res.err), None),
               info.calls)

specific_result(name, version, versions, info) ==
    IF versions.res.ok
    THEN IF \E i \in 1..Len(versions.res.val) : versions.res.val[i] = version
         THEN Reply(CrateCheckResult(name, TRUE,
                                     IF info.res.ok THEN Some(info.res.val.newest_version) ELSE None,
                                     Some(version), Some(TRUE), None,
                                     IF info.res.ok THEN Some(info.res.val) ELSE None),
                    versions.calls \o info.calls)
         ELSE Reply(CrateCheckResult(name, TRUE, None, Some(version), Some(FALSE), None, None),
                    versions.calls)
    ELSE Reply(CrateCheckResult(name, FALSE, None, Some(version), None, Some(versions.res.err),
                                None),
               versions.calls)

version_result(name, version, up) ==
    IF version = "latest" THEN latest_result(name, version, get_crate_info(name, up))
    ELSE specific_result(name, version, get_all_versions(name, up), get_crate_info(name, up))

get_crate_version_lookup(lookup, key, result, cfg, t, shards, refs, m, elapsed) ==
    IF ~lookup.returned THEN stuck_lookup(lookup, key, m)
    ELSE IF lookup.ret # None
    THEN Handled(TRUE, TRUE, from_value_CrateCheckResult((CHOOSE e \in lookup.ret : TRUE).data),
                 <<>>, lookup.cache, record_request(record_cache_hit(m), TRUE, elapsed), {})
    ELSE respond_cached(cache_result(cfg, lookup.cache, key, to_value_CrateCheckResult(result.res),
                                     t, shards, refs),
                        TRUE, Ok(result.res), result.calls, record_cache_miss(m), elapsed)

get_crate_version(name, version, cfg, c, t, shards, refs, m, up, elapsed) ==
    get_crate_version_lookup(get_from_cache(cfg, c, version_key(name, version), t, shards, refs),
                             version_key(name, version), version_result(name, version, up),
                             cfg, t, shards, refs, m, elapsed)

\* a handler without cache: record_request(success) and the answer
respond(res, calls, c, m, elapsed) ==
    Handled(TRUE, FALSE, res, calls, c, record_request(m, res.ok, elapsed), {})

\* client.rs: get_crate_dependencies; `found` is how the registry answers
\* GET /crates/{name}/{version}/dependencies
client_get_crate_dependencies(name, version, found) ==
    validated(validate_crate_name(name),
              Reply(IF found THEN Ok(<<>>) ELSE Err("version_not_found"),
                    << <<"dependencies", name>> >>))

dependencies_of(latest, deps) ==
    IF latest.res.ok THEN Reply(deps.res, latest.calls \o deps.calls) ELSE latest

get_crate_dependencies(name, version, found, c, m, up, elapsed) ==
    IF version = "latest"
    THEN respond(dependencies_of(get_crate_info(name, up),
                                 client_get_crate_dependencies(name, NewestVersion, found)).res,
                 dependencies_of(get_crate_info(name, up),
                                 client_get_crate_dependencies(name, NewestVersion, found)).calls,
                 c, m, elapsed)
    ELSE respond(client_get_crate_dependencies(name, version, found).res,
                 client_get_crate_dependencies(name, version, found).calls, c, m, elapsed)

\* client.rs: get_download_stats; a failed version list gives no versions
get_download_stats(info, versions) ==
    IF info.res.ok
    THEN Reply(Ok(IF versions.res.ok THEN versions.res.val ELSE <<>>), info.calls \o versions.calls)
    ELSE info

get_crate_stats(name, c, m, up, elapsed) ==
    respond(get_download_stats(get_crate_info(name, up), get_all_versions(name, up)).res,
            get_download_stats(get_crate_info(name, up), get_all_versions(name, up)).calls,
            c, m, elapsed)

\* client.rs: search_crates; `found` is whether the registry answers 200
client_search_crates(query, found) ==
    IF query = "" THEN Reply(Err("validation_error"), <<>>)
    ELSE Reply(IF found THEN Ok(<<>>) ELSE Err("request_failed"), << <<"search", <<query>> >> >>)

\* `q` is the `q` parameter of the query string, if given
search_crates(q, found, c, m, elapsed) ==
    IF q = None THEN Handled(TRUE, FALSE, Err("bad_request"), <<>>, c, m, {})
    ELSE respond(client_search_crates(CHOOSE x \in q : TRUE, found).res,
                 client_search_crates(CHOOSE x \in q : TRUE, found).calls, c, m, elapsed)

----------------------------------------------------------------------------
(* The batch inputs the model submits *)

NameLists == UNION {[1..k -> CrateNames] : k \in 0..MaxList}

VersionMaps ==
    UNION {[S -> VersionStrings] : S \in {T \in SUBSET MapKeys : Cardinality(T) <= MaxList}}

Targets ==
    { Single(NameA, None), Single(NameA, Some("latest")), Single(NameB, Some("1.0.0")),
      Single(EmptyName, None),
      Multiple(<<NameA, NameB>>), Multiple(<<NameB, NameBad>>),
      Multiple(<<EmptyName>>) }

BatchOperations ==
    {BatchOperation(t, "check") : t \in Targets} \cup {BatchOperation(Single(NameB, None), "")}

OperationLists == UNION {[1..k -> BatchOperations] : k \in 0..MaxOps}

BatchInputs ==
    {CrateVersionMap(m) : m \in VersionMaps}
    \cup {CrateList(cs) : cs \in NameLists}
    \cup {Operations(ops) : ops \in OperationLists}

\* the orders HashMap::iter can visit the keys of a version map in
IterOrders(input) == IF input.shape = "map" THEN Orderings(DOMAIN input.map) ELSE {<<>>}

\* the response time the handler measures, in milliseconds
ElapsedMs == {1}

----------------------------------------------------------------------------
(* The state machine *)

Call(entry, input, parallel, out) ==
    [entry |-> entry, input |-> input, parallel |-> parallel, status |-> out.status,
     result |-> out.result, client |-> out.client, calls |-> out.calls]

NoCall == Call("none", CrateList(<<>>), FALSE, Outcome("none", None, Err("not_called"), <<>>))

ZeroMetrics ==
    [requests_total |-> 0, total_response_time_ms |-> 0, requests_successful |-> 0,
     requests_failed |-> 0, cache_hits |-> 0, cache_misses |-> 0]

\* the names and versions the single-item endpoints are asked for, and the
\* keys they give
ServerNames == {NameA}
ServerVersions == {"latest", "1.0.0"}
CacheKeys ==
    {info_key(n) : n \in ServerNames}
    \cup {version_key(n, v) : n \in ServerNames, v \in ServerVersions}

\* a request or cache call: at is the clock it read, found the keys the map
\* held when it began, removed the keys it took out of the map
Served(handler, key, out, before, at) ==
    [handler |-> handler, key |-> key, returned |-> out.returned, hit |-> out.hit,
     body |-> out.body, calls |-> out.calls, at |-> at, found |-> DOMAIN before,
     removed |-> DOMAIN before \ DOMAIN out.cache]

NoServed ==
    Served("none", <<>>, Handled(TRUE, FALSE, Err("none"), <<>>, EmptyCache, ZeroMetrics, {}),
           EmptyCache, 0)

\* the threads that call the metrics
MaxThreads == 2
Threads == 1..MaxThreads

Task(call, success, ms, pc) == [call |-> call, success |-> success, ms |-> ms, pc |-> pc]
IdleTask == Task("none", FALSE, 0, 0)

NoSummary ==
    [total_checked |-> 0, existing |-> 0, missing |-> 0, existing_crates |-> <<>>,
     missing_crates |-> <<>>]

Command(cmd, names, flag, res, exit_code, summary, calls) ==
    [cmd |-> cmd, names |-> names, flag |-> flag, ok |-> res.ok, error |-> res.err,
     exit_code |-> exit_code, summary |-> summary, calls |-> calls]

NoCommand == Command("none", <<>>, FALSE, Err("none"), 0, NoSummary, <<>>)

\* the server of the integration tests: caching off
TestConfig == CHOOSE cfg \in Configs : ~cfg.enabled

CacheIdle ==
    /\ cache = EmptyCache
    /\ now = 0
    /\ held = {}
    /\ served = NoServed

BatchIdle ==
    /\ metrics = ZeroMetrics
    /\ last = NoCall
    /\ prev = NoCall

\* get_metrics after `loaded` of its loads: seen holds the values read
Snapshot(loaded, seen) == [loaded |-> loaded, seen |-> seen]

NoSnapshot == Snapshot(0, ZeroMetrics)

ThreadsIdle ==
    /\ tasks = [t \in Threads |-> IdleTask]
    /\ finished = 0
    /\ snapshot = NoSnapshot

\* a process_single_crate_check call: its arguments, result and requests
Checked(crate_name, requested_version, reply) ==
    [called |-> TRUE, crate_name |-> crate_name, requested_version |-> requested_version,
     result |-> reply.res, calls |-> reply.calls]

NoCheck ==
    [called |-> FALSE, crate_name |-> <<>>, requested_version |-> None,
     result |-> CrateCheckResult(<<>>, FALSE, None, None, None, None, None), calls |-> <<>>]

\* a batch call step by step: queries are the checks its loop makes, results
\* the results pushed so far, got the replies the check in progress has
\* received; stage is "running" between requests, "waiting" while a request
\* is in flight, "returned" once the call has returned
Run(stage, queries, results, got) ==
    [stage |-> stage, queries |-> queries, results |-> results, got |-> got]

IdleRun == Run("idle", <<>>, <<>>, <<>>)

CliIdle ==
    /\ command = NoCommand
    /\ checked = NoCheck
    /\ run = IdleRun

Init ==
    /\ upstream \in [RegistryNames -> Responses]
    /\ BatchIdle
    /\ config = TestConfig
    /\ shard_of = [k \in CacheKeys |-> 1]
    /\ CacheIdle
    /\ ThreadsIdle
    /\ CliIdle

\* A client sends a request, may send the same request once more in the
\* other mode, and then the exchange is over (Forget).
Submittable == IF last.entry = "none" THEN BatchInputs ELSE {last.input}

CanSubmit(entry, parallel) ==
    \/ last.entry = "none"
    \/ /\ prev.entry = "none"
       /\ last.entry = entry
       /\ last.parallel # parallel

CliBatch(input, parallel, order) ==
    /\ CanSubmit("cli", parallel)
    /\ prev' = last
    /\ last' = Call("cli", input, parallel, cli_handle_batch(input, parallel, order, upstream))
    /\ UNCHANGED <<upstream, metrics, server_vars, thread_vars, cli_vars>>

\* the end of the HTTP handler: the metrics are recorded when it answers
\* 200; a `?` that returns early records nothing
HttpRespond(input, parallel, elapsed, out) ==
    /\ prev' = last
    /\ last' = Call("http", input, parallel, out)
    /\ metrics' = IF out.status = "ok" THEN record_request(metrics, TRUE, elapsed)
                  ELSE metrics

HttpBatch(input, parallel, order, elapsed) ==
    /\ metrics.requests_total < MaxRequests
    /\ CanSubmit("http", parallel)
    /\ HttpRespond(input, parallel, elapsed, http_handle_batch(input, parallel, order, upstream))
    /\ UNCHANGED <<upstream, server_vars, thread_vars, cli_vars>>

Forget ==
    /\ last.entry # "none"
    /\ last' = NoCall
    /\ prev' = NoCall
    /\ UNCHANGED <<upstream, metrics, server_vars, thread_vars, cli_vars>>

\* the registry changes its answer for one crate, between exchanges
UpstreamChange(name, response) ==
    /\ last.entry = "none"
    /\ upstream[name] # response
    /\ upstream' = [upstream EXCEPT ![name] = response]
    /\ UNCHANGED <<metrics, last, prev, server_vars, thread_vars, cli_vars>>

Next ==
    \/ \E input \in Submittable, parallel \in BOOLEAN :
          \E order \in IterOrders(input) : CliBatch(input, parallel, order)
    \/ \E input \in Submittable, parallel \in BOOLEAN, elapsed \in ElapsedMs :
          \E order \in IterOrders(input) : HttpBatch(input, parallel, order, elapsed)
    \/ Forget
    \/ \E name \in RegistryNames, response \in Responses : UpstreamChange(name, response)

Spec == Init /\ [][Next]_vars

----------------------------------------------------------------------------
(* The cache on its own: get_from_cache and set_cache called with any key   *)
(* and value, under any configuration, while the clock advances.            *)

CacheValues ==
    { to_value_CrateCheckResult(CrateCheckResult(NameA, FALSE, None, Some("1.0.0"), None,
                                                 Some("request_failed"), None)) }

QuietRegistry == [n \in RegistryNames |-> Response("notfound", FALSE, FALSE, <<>>)]

CacheInit ==
    /\ upstream = QuietRegistry
    /\ BatchIdle
    /\ config \in Configs
    /\ shard_of \in [CacheKeys -> ShardIds]
    /\ CacheIdle
    /\ ThreadsIdle
    /\ CliIdle

\* what a request or cache call leaves in the server
Serve(handler, key, out) ==
    /\ served' = Served(handler, key, out, cache, now)
    /\ cache' = out.cache
    /\ held' = held \cup out.holds
    /\ metrics' = out.metrics

LookupCall(lookup, key) ==
    Handled(lookup.returned, lookup.ret # None, Ok(lookup.ret), <<>>, lookup.cache, metrics,
            IF lookup.returned THEN {} ELSE {key})

GetFromCache(key) ==
    /\ Serve("get_from_cache", key,
             LookupCall(get_from_cache(config, cache, key, now, shard_of, held), key))
    /\ UNCHANGED <<upstream, last, prev, config, shard_of, now, thread_vars, cli_vars>>

StoreCall(op, data) == Handled(op.returned, FALSE, Ok(Some(data)), <<>>, op.cache, metrics, {})

SetCache(key, data) ==
    /\ Serve("set_cache", key,
             StoreCall(set_cache(config, cache, key, data, now, shard_of, held), data))
    /\ UNCHANGED <<upstream, last, prev, config, shard_of, now, thread_vars, cli_vars>>

Tick ==
    /\ now < MaxTime
    /\ now' = now + 1
    /\ UNCHANGED <<upstream, metrics, last, prev, config, shard_of, cache, held, served,
                   thread_vars, cli_vars>>

CacheNext ==
    \/ \E key \in CacheKeys : GetFromCache(key)
    \/ \E key \in CacheKeys, data \in CacheValues : SetCache(key, data)
    \/ Tick

CacheSpec == CacheInit /\ [][CacheNext]_vars

----------------------------------------------------------------------------
(* What the properties talk about *)

\* a batch call has been made and is recorded in `last`
Called == last.entry # "none"

\* the call recorded in `last` returned a BatchResult
Returned == Called /\ last.status = "ok"

\* the queries the spec's normalizer derives from a CrateList or Operations
\* input, in order
TargetQueries(t) ==
    IF t.kind = "single" THEN << [name |-> t.crate_name, version |-> t.version] >>
    ELSE [j \in 1..Len(t.crates) |-> [name |-> t.crates[j], version |-> None]]

Normalized(input) ==
    IF input.shape = "list"
    THEN [i \in 1..Len(input.crates) |-> [name |-> input.crates[i], version |-> None]]
    ELSE Flatten([i \in 1..Len(input.operations) |-> TargetQueries(input.operations[i].target)])

\* the number of packages of an input
NumQueries(input) ==
    IF input.shape = "map" THEN Cardinality(DOMAIN input.map) ELSE Len(Normalized(input))

\* the names of an input
InputNames(input) ==
    IF input.shape = "map" THEN DOMAIN input.map
    ELSE {Normalized(input)[i].name : i \in 1..Len(Normalized(input))}

\* the existence check of this name cannot succeed: the name is not a valid
\* crate name or the registry does not answer
ExistenceFails(name) ==
    \/ name = <<>>
    \/ \E i \in 1..Len(name) : name[i] \notin {"a", "b", "0", "-", "_"}
    \/ name \in DOMAIN upstream /\ upstream[name].exists = "timeout"

IsSuccess(r) == r.error = None /\ r.exists

----------------------------------------------------------------------------
(* C1: every BatchResult a batch path returns has                          *)
(* successful + failed = total_processed.                                  *)
C1_SumIsTotal ==
    \A r \in last.result : r.successful + r.failed = r.total_processed

(* C2: for a CrateList or version map input the BatchResult has            *)
(* len(results) = total_processed = number of packages of the input, on    *)
(* the HTTP path and on the CLI path.                                      *)
C2_ListMapCounts ==
    \A r \in last.result :
        last.input.shape \in {"list", "map"} =>
            /\ Len(r.results) = r.total_processed
            /\ r.total_processed = NumQueries(last.input)

(* C3: in every BatchResult, successful is the number of results with      *)
(* error unset and exists true, and failed is the number of the others.    *)
C3_Classification ==
    \A r \in last.result :
        /\ r.successful = Cardinality({i \in 1..Len(r.results) : IsSuccess(r.results[i])})
        /\ r.failed = Cardinality({i \in 1..Len(r.results) : ~IsSuccess(r.results[i])})

(* C4: process_batch_operations returns status "completed", total_processed *)
(* equal to the number of operations submitted, and one result per crate    *)
(* named across the targets (one for a Single, k for a Multiple of k).      *)
C4_OperationTotals ==
    (Called /\ last.input.shape = "ops" /\ last.status # "validation_error") =>
        /\ last.client.ok
        /\ last.client.val.status = "completed"
        /\ last.client.val.result.total_processed = Len(last.input.operations)
        /\ Len(last.client.val.result.results) = NumQueries(last.input)

C4_Witness ==
    /\ Returned /\ last.input.shape = "ops"
    /\ Len(last.input.operations) = 2
    /\ last.input.operations[1].target.kind = "single"
    /\ last.input.operations[2].target.kind = "multiple"
    /\ Len(last.input.operations[2].target.crates) = 2
    /\ \E r \in last.result : Len(r.results) = 3 /\ r.total_processed = 2

(* C5: for CrateList and Operations inputs, results[i] belongs to the i-th  *)
(* query of the normalized sequence: a Multiple target expands in place and *)
(* in list order to one query per name with no requested version, a Single  *)
(* target keeps its optional version.                                       *)
C5_InputOrder ==
    \A r \in last.result :
        last.input.shape \in {"list", "ops"} =>
            LET q == Normalized(last.input) IN
            /\ Len(r.results) = Len(q)
            /\ \A i \in 1..Len(q) :
                  /\ r.results[i].crate_name = q[i].name
                  /\ r.results[i].requested_version = q[i].version

C5_Witness ==
    /\ Returned /\ last.input.shape = "ops"
    /\ Len(last.input.operations) = 2
    /\ last.input.operations[1].target = Single(NameB, Some("1.0.0"))
    /\ last.input.operations[2].target = Multiple(<<NameA, NameB>>)
    /\ \E r \in last.result :
          /\ Len(r.results) = 3
          /\ r.results[1].requested_version = Some("1.0.0")
          /\ r.results[2].crate_name = NameA
          /\ r.results[3].crate_name = NameB

(* C6: no failure of an item aborts a batch: every call of one of the three  *)
(* batch functions returns Ok with exactly one result per query, an item's   *)
(* error field is set exactly when its own existence check failed, and for a *)
(* version map the names of the results are the keys of the map.            *)
C6_NoAbort ==
    (Called /\ last.status # "validation_error") =>
        /\ last.client.ok
        /\ last.status = "ok"
        /\ \A r \in last.result :
              /\ Len(r.results) = NumQueries(last.input)
              /\ \A i \in 1..Len(r.results) :
                    /\ (r.results[i].error # None) <=> ExistenceFails(r.results[i].crate_name)
                    /\ r.results[i].error # None => ~r.results[i].exists
              /\ last.input.shape = "map" =>
                    {r.results[i].crate_name : i \in 1..Len(r.results)} = DOMAIN last.input.map
              /\ last.input.shape # "map" =>
                    \A i \in 1..Len(r.results) :
                        r.results[i].crate_name = Normalized(last.input)[i].name

C6_Witness ==
    /\ Returned /\ last.input.shape = "list"
    /\ \E r \in last.result :
          /\ Len(r.results) = 2
          /\ r.results[1].error # None
          /\ r.results[2].error = None /\ r.results[2].exists

(* C7: batch validation rejects every input in which a package name is      *)
(* empty: a key of a version map, an element of a CrateList, the name of a   *)
(* Single target or a name of a Multiple target.                            *)
C7_EmptyNameRejected ==
    (Called /\ <<>> \in InputNames(last.input)) => last.status = "validation_error"

\* the rejections C8 lists
ShapeRejected(input) ==
    \/ input.shape = "map" /\ DOMAIN input.map = {}
    \/ input.shape = "list" /\ input.crates = <<>>
    \/ input.shape = "ops" /\ input.operations = <<>>
    \/ input.shape = "ops" /\ \E i \in 1..Len(input.operations) : input.operations[i].operation = ""

(* C8: an empty version map, an empty CrateList, an empty operation list or  *)
(* an operation with an empty label makes the CLI command and the HTTP       *)
(* handler return a validation error; a call that returns a validation error *)
(* has sent no upstream request and produced no result.                      *)
C8_RejectedBeforeExecution ==
    Called =>
        /\ ShapeRejected(last.input) => last.status = "validation_error"
        /\ last.status = "validation_error" => last.calls = <<>> /\ last.result = None

C8_Witness ==
    /\ Called /\ last.status = "validation_error"
    /\ last.input.shape = "ops" /\ Len(last.input.operations) = 2
    /\ last.input.operations[1].operation = "check"
    /\ last.input.operations[1].target = Single(NameA, None)
    /\ last.input.operations[2].operation = ""

(* C9: a version map gives each package's result the version string of the   *)
(* map as requested_version: "1.0.0" stays "1.0.0" and the "latest" sentinel *)
(* is carried through.                                                      *)
C9_LatestCarried ==
    \A r \in last.result :
        last.input.shape = "map" =>
            \A i \in 1..Len(r.results) :
                r.results[i].requested_version = Some(last.input.map[r.results[i].crate_name])

\* `prev` and `last` are the same request, run in the two modes against the
\* same registry answers, and both returned
BothModes == prev.entry # "none" /\ prev.status = "ok" /\ last.status = "ok"

ResultsOf(call) == (CHOOSE r \in call.result : TRUE).results

----------------------------------------------------------------------------
(* The HTTP server: the single-item endpoints, the search endpoint and the  *)
(* batch endpoint, answering one request after the other from any           *)
(* configuration, while the clock advances and the registry changes.        *)

ServerBatchInputs ==
    { CrateList(<<NameA>>), CrateVersionMap([n \in {NameA} |-> "latest"]), Operations(<<>>) }

SearchQueries == {None, Some(""), Some("a")}

\* the keys all in one shard, or the info keys in one and the version keys
\* in another
ServerShards ==
    { [k \in CacheKeys |-> 1],
      [k \in CacheKeys |-> IF k \in {info_key(n) : n \in ServerNames} THEN 1 ELSE 2] }

\* how the registry answers for the crates the server is asked about
ServerResponses ==
    { Response("notfound", FALSE, FALSE, <<>>), Response("timeout", FALSE, FALSE, <<>>),
      Response("found", TRUE, TRUE, <<"1.0.0">>) }

ServerInit ==
    /\ upstream \in {u \in [RegistryNames -> ServerResponses] : u[NameB] = QuietRegistry[NameB]}
    /\ BatchIdle
    /\ config \in Configs
    /\ shard_of \in ServerShards
    /\ CacheIdle
    /\ ThreadsIdle
    /\ CliIdle

\* the model stops sending requests once MaxRequests are counted
WithinBudget ==
    /\ metrics.requests_total < MaxRequests
    /\ metrics.cache_hits + metrics.cache_misses < MaxRequests

Request(handler, key, out) ==
    /\ WithinBudget
    /\ Serve(handler, key, out)
    /\ UNCHANGED <<upstream, last, prev, config, shard_of, now, thread_vars, cli_vars>>

GetCrate(name, elapsed) ==
    Request("get_crate", info_key(name),
            get_crate(name, config, cache, now, shard_of, held, metrics, upstream, elapsed))

GetCrateVersion(name, version, elapsed) ==
    Request("get_crate_version", version_key(name, version),
            get_crate_version(name, version, config, cache, now, shard_of, held, metrics,
                              upstream, elapsed))

GetCrateDependencies(name, version, found, elapsed) ==
    Request("get_crate_dependencies", name,
            get_crate_dependencies(name, version, found, cache, metrics, upstream, elapsed))

GetCrateStats(name, elapsed) ==
    Request("get_crate_stats", name, get_crate_stats(name, cache, metrics, upstream, elapsed))

SearchCrates(q, found, elapsed) ==
    Request("search_crates", <<>>, search_crates(q, found, cache, metrics, elapsed))

ServerNext ==
    \/ \E name \in ServerNames, elapsed \in ElapsedMs : GetCrate(name, elapsed)
    \/ \E name \in ServerNames, version \in ServerVersions, elapsed \in ElapsedMs :
          GetCrateVersion(name, version, elapsed)
    \/ \E name \in ServerNames, version \in ServerVersions, found \in BOOLEAN,
             elapsed \in ElapsedMs :
          GetCrateDependencies(name, version, found, elapsed)
    \/ \E name \in ServerNames, elapsed \in ElapsedMs : GetCrateStats(name, elapsed)
    \/ \E q \in SearchQueries, found \in BOOLEAN, elapsed \in ElapsedMs :
          SearchCrates(q, found, elapsed)
    \/ \E input \in ServerBatchInputs \cap Submittable, parallel \in {FALSE},
             elapsed \in ElapsedMs :
          \E order \in IterOrders(input) : HttpBatch(input, parallel, order, elapsed)
    \/ Forget
    \/ Tick
    \/ \E name \in ServerNames, response \in ServerResponses : UpstreamChange(name, response)

ServerSpec == ServerInit /\ [][ServerNext]_vars

----------------------------------------------------------------------------
(* The two resolution endpoints asked with any path segment.  Path(name)    *)
(* is handed to the handler as it came, so the crate-info endpoint is also  *)
(* asked for the segment `a:1.0.0`, written here with the characters of the *)
(* version as one token; the key is built before the name is validated.     *)

NameColon == <<"a", ":", "1.0.0">>

PathNames == {NameA, NameColon}

PathInit ==
    /\ upstream \in {u \in [RegistryNames -> ServerResponses] : u[NameB] = QuietRegistry[NameB]}
    /\ BatchIdle
    /\ config \in Configs
    /\ shard_of \in ServerShards
    /\ CacheIdle
    /\ ThreadsIdle
    /\ CliIdle

PathNext ==
    \/ \E name \in PathNames, elapsed \in ElapsedMs : GetCrate(name, elapsed)
    \/ \E name \in ServerNames, version \in ServerVersions, elapsed \in ElapsedMs :
          GetCrateVersion(name, version, elapsed)

PathSpec == PathInit /\ [][PathNext]_vars

----------------------------------------------------------------------------
(* server.rs: ServerMetrics called from several threads.  Every counter is  *)
(* an AtomicU64 and every update one fetch_add, which reads and writes the  *)
(* counter in one step; a call is the sequence of its fetch_adds, and the   *)
(* calls of different threads interleave between them.                      *)

fetch_add(m, counter, n) == [m EXCEPT ![counter] = m[counter] + n]

\* record_request counting the request only when it succeeded
record_request_ops_success_only(success, response_time_ms) ==
    IF success
    THEN << <<"total_response_time_ms", response_time_ms>>, <<"requests_total", 1>>,
            <<"requests_successful", 1>> >>
    ELSE << <<"total_response_time_ms", response_time_ms>>, <<"requests_failed", 1>> >>

\* the fetch_adds of one record_request, in program order
record_request_ops(success, response_time_ms) ==
    << <<"requests_total", 1>>, <<"total_response_time_ms", response_time_ms>>,
       <<IF success THEN "requests_successful" ELSE "requests_failed", 1>> >>

MetricsCalls == {"record_request", "record_cache_hit", "record_cache_miss"}

ops_of(task) ==
    CASE task.call = "record_request" -> record_request_ops(task.success, task.ms)
      [] task.call = "record_cache_hit" -> << <<"cache_hits", 1>> >>
      [] OTHER -> << <<"cache_misses", 1>> >>

MetricsInit ==
    /\ upstream = QuietRegistry
    /\ BatchIdle
    /\ config = TestConfig
    /\ shard_of = [k \in CacheKeys |-> 1]
    /\ CacheIdle
    /\ ThreadsIdle
    /\ CliIdle

\* the calls begun: those that have returned or done a fetch_add, and those
\* about to do their first
CallsBegun ==
    finished + metrics.cache_hits + metrics.cache_misses
        + Cardinality({t \in Threads : tasks[t].call # "none"
                                          /\ (tasks[t].call = "record_request" \/ tasks[t].pc = 0)})

BeginCall(t, call, success, ms) ==
    /\ tasks[t] = IdleTask
    /\ CallsBegun < MaxRequests
    /\ tasks' = [tasks EXCEPT ![t] = Task(call, success, ms, 0)]
    /\ UNCHANGED <<upstream, metrics, last, prev, server_vars, finished, snapshot, cli_vars>>

\* thread t does the next fetch_add of its call and returns after the last
StepCall(t) ==
    /\ tasks[t].call # "none"
    /\ metrics' = fetch_add(metrics, ops_of(tasks[t])[tasks[t].pc + 1][1],
                            ops_of(tasks[t])[tasks[t].pc + 1][2])
    /\ tasks' = [tasks EXCEPT ![t] = IF tasks[t].pc + 1 = Len(ops_of(tasks[t])) THEN IdleTask
                                     ELSE Task(tasks[t].call, tasks[t].success, tasks[t].ms,
                                               tasks[t].pc + 1)]
    /\ finished' = IF tasks[t].call = "record_request" /\ tasks[t].pc + 1 = Len(ops_of(tasks[t]))
                   THEN finished + 1 ELSE finished
    /\ UNCHANGED <<upstream, last, prev, server_vars, snapshot, cli_vars>>

\* the counters in the order get_metrics loads them
LoadOrder ==
    <<"requests_total", "total_response_time_ms", "requests_successful", "requests_failed",
      "cache_hits", "cache_misses">>

load(snap, m) ==
    Snapshot(snap.loaded + 1,
             [snap.seen EXCEPT ![LoadOrder[snap.loaded + 1]] = m[LoadOrder[snap.loaded + 1]]])

\* get_metrics, on a thread of its own, does its next load; once a
\* MetricsResponse is complete the next call starts afresh
GetMetricsLoad ==
    /\ snapshot' = load(IF snapshot.loaded = Len(LoadOrder) THEN NoSnapshot ELSE snapshot,
                        metrics)
    /\ UNCHANGED <<upstream, metrics, last, prev, server_vars, tasks, finished, cli_vars>>

MetricsNext ==
    \/ \E t \in Threads, call \in MetricsCalls, success \in BOOLEAN, ms \in ElapsedMs :
          BeginCall(t, call, success, ms)
    \/ \E t \in Threads : StepCall(t)
    \/ GetMetricsLoad

MetricsSpec == MetricsInit /\ [][MetricsNext]_vars

----------------------------------------------------------------------------
(* client.rs called directly, and cli.rs: handle_check_multiple with the    *)
(* exit code main.rs gives the process.                                     *)

\* `n` times the character c
RECURSIVE Repeat(_, _)
Repeat(c, n) == IF n = 0 THEN <<>> ELSE <<c>> \o Repeat(c, n - 1)

NameAlphabet == {"a", "A", "0", "-", "_", "@", "e_acute", "arabic_3"}

\* the names the client is called with: every name of up to two characters,
\* and names around the length limit
ValidatedNames ==
    UNION {[1..k -> NameAlphabet] : k \in 0..2}
    \cup { Repeat("a", MaxCrateNameLen), Repeat("a", MaxCrateNameLen + 1),
           Repeat("e_acute", MaxCrateNameLen \div 2), Repeat("e_acute", MaxCrateNameLen) }

ClientOps == {"crate_exists", "get_crate_info", "get_all_versions"}

client_call(op, name, up) ==
    CASE op = "crate_exists" -> crate_exists(name, up)
      [] op = "get_crate_info" -> get_crate_info(name, up)
      [] OTHER -> get_all_versions(name, up)

\* one pass of the loop of handle_check_multiple: whether the crate goes to
\* existing_crates, and the requests sent
check_one(crate_name, ex, latest) ==
    IF ex.res.ok
    THEN IF ex.res.val THEN [name |-> crate_name, exists |-> TRUE, calls |-> ex.calls \o latest.calls]
         ELSE [name |-> crate_name, exists |-> FALSE, calls |-> ex.calls]
    ELSE [name |-> crate_name, exists |-> FALSE, calls |-> ex.calls]

RECURSIVE NamesWhere(_, _)
NamesWhere(items, exists) ==
    IF items = <<>> THEN <<>>
    ELSE (IF Head(items).exists = exists THEN <<Head(items).name>> ELSE <<>>)
             \o NamesWhere(Tail(items), exists)

MultiCheckSummary(total, existing_crates, missing_crates) ==
    [total_checked |-> total, existing |-> Len(existing_crates), missing |-> Len(missing_crates),
     existing_crates |-> existing_crates, missing_crates |-> missing_crates]

\* the exit taken whenever a crate is missing, whatever fail_on_missing says
exit_code_any_missing(fail_on_missing, missing_crates) ==
    IF missing_crates # <<>> THEN 1 ELSE 0

\* `if fail_on_missing && !missing_crates.is_empty() { exit(1) }`, else Ok(())
exit_code(fail_on_missing, missing_crates) ==
    IF fail_on_missing /\ missing_crates # <<>> THEN 1 ELSE 0

check_multiple_end(total, fail_on_missing, items) ==
    [res |-> Ok(TRUE),
     exit_code |-> exit_code(fail_on_missing, NamesWhere(items, FALSE)),
     summary |-> MultiCheckSummary(total, NamesWhere(items, TRUE), NamesWhere(items, FALSE)),
     calls |-> Flatten([i \in 1..Len(items) |-> items[i].calls])]

\* an Err from handle_check_multiple reaches main, which exits with 1
handle_check_multiple(crate_names, fail_on_missing, up) ==
    IF crate_names = <<>>
    THEN [res |-> Err("validation_error"), exit_code |-> 1, summary |-> NoSummary, calls |-> <<>>]
    ELSE check_multiple_end(Len(crate_names), fail_on_missing,
                            [i \in 1..Len(crate_names) |->
                                check_one(crate_names[i], crate_exists(crate_names[i], up),
                                          get_crate_info(crate_names[i], up))])

ClientInit ==
    /\ upstream \in [RegistryNames -> ServerResponses]
    /\ BatchIdle
    /\ config = TestConfig
    /\ shard_of = [k \in CacheKeys |-> 1]
    /\ CacheIdle
    /\ ThreadsIdle
    /\ CliIdle

Ran(cmd, names, flag, out) ==
    /\ command' = Command(cmd, names, flag, out.res, out.exit_code, out.summary, out.calls)
    /\ UNCHANGED <<upstream, metrics, last, prev, server_vars, thread_vars, checked, run>>

ClientReply(reply) == [res |-> reply.res, exit_code |-> 0, summary |-> NoSummary, calls |-> reply.calls]

ClientCall(op, name) == Ran(op, <<name>>, FALSE, ClientReply(client_call(op, name, upstream)))

CheckMultiple(crate_names, fail_on_missing) ==
    Ran("check-multiple", crate_names, fail_on_missing,
        handle_check_multiple(crate_names, fail_on_missing, upstream))

ClientNext ==
    \/ \E op \in ClientOps, name \in ValidatedNames : ClientCall(op, name)
    \/ \E crate_names \in NameLists, fail_on_missing \in BOOLEAN :
          CheckMultiple(crate_names, fail_on_missing)

ClientSpec == ClientInit /\ [][ClientNext]_vars

----------------------------------------------------------------------------
(* client.rs: process_single_crate_check called on its own, with any name   *)
(* and requested version, against any answers of the registry.              *)

CheckVersions == {None, Some("latest"), Some("1.0.0"), Some("2.0.0")}

CheckInit ==
    /\ upstream \in [RegistryNames -> Responses]
    /\ BatchIdle
    /\ config = TestConfig
    /\ shard_of = [k \in CacheKeys |-> 1]
    /\ CacheIdle
    /\ ThreadsIdle
    /\ CliIdle

Check(crate_name, requested_version) ==
    /\ checked' = Checked(crate_name, requested_version,
                          process_single_crate_check(crate_name, requested_version, upstream))
    /\ UNCHANGED <<upstream, metrics, last, prev, server_vars, thread_vars, command, run>>

CheckNext ==
    \E crate_name \in CrateNames, requested_version \in CheckVersions :
        Check(crate_name, requested_version)

CheckSpec == CheckInit /\ [][CheckNext]_vars

----------------------------------------------------------------------------
(* client.rs: a batch call taken step by step.  The three batch functions   *)
(* run their checks one after the other, each check awaiting its requests   *)
(* one after the other; a request in flight returns with an answer of the   *)
(* registry or fails at the client's timeout.                               *)

Query(crate_name, requested_version) ==
    [crate_name |-> crate_name, requested_version |-> requested_version]

\* the process_single_crate_check calls of one operation
operation_queries(operation) ==
    IF operation.target.kind = "single"
    THEN << Query(operation.target.crate_name, operation.target.version) >>
    ELSE [j \in 1..Len(operation.target.crates) |-> Query(operation.target.crates[j], None)]

\* the process_single_crate_check calls of a batch, in the order of its loop
Queries(input, order) ==
    CASE input.shape = "map" ->
            [i \in 1..Len(order) |-> Query(order[i], version_opt(input.map[order[i]]))]
      [] input.shape = "list" ->
            [i \in 1..Len(input.crates) |-> Query(input.crates[i], None)]
      [] OTHER ->
            Flatten([i \in 1..Len(input.operations) |-> operation_queries(input.operations[i])])

\* what process_single_crate_check does next after the replies `got`
next_request(query, got) ==
    CASE Len(got) = 0 -> "exists"
      [] Len(got) = 1 -> IF got[1].res.ok /\ got[1].res.val THEN "info" ELSE "done"
      [] Len(got) = 2 ->
            IF query.requested_version # None /\ query.requested_version # Some("latest")
            THEN "versions" ELSE "done"
      [] OTHER -> "done"

\* a call the check did not reach
NotReached == Reply(Err("not_reached"), <<>>)

reply_at(got, i) == IF i <= Len(got) THEN got[i] ELSE NotReached

\* the result of a check that has received the replies `got`
result_of(query, got) ==
    single_crate_check(query.crate_name, query.requested_version, reply_at(got, 1),
                       reply_at(got, 2), reply_at(got, 3)).res

\* a batch function that gives up at the first check whose error is set
push_result_abort(r, result) ==
    IF result.error # None THEN Run("aborted", r.queries, r.results, <<>>)
    ELSE Run(IF Len(r.results) + 1 = Len(r.queries) THEN "returned" ELSE "running",
             r.queries, Append(r.results, result), <<>>)

\* `results.push(result)` and the next turn of the loop, or the return
push_result(r, result) ==
    Run(IF Len(r.results) + 1 = Len(r.queries) THEN "returned" ELSE "running",
        r.queries, Append(r.results, result), <<>>)

\* the client call `request` stands for, answered by `response`
client_answer(request, crate_name, response) ==
    CASE request = "exists" -> crate_exists(crate_name, [n \in {crate_name} |-> response])
      [] request = "info" -> get_crate_info(crate_name, [n \in {crate_name} |-> response])
      [] OTHER -> get_all_versions(crate_name, [n \in {crate_name} |-> response])

\* the batches the step-by-step model runs
RunInputs ==
    {input \in BatchInputs : input.shape = "ops" => Len(input.operations) <= 1}

RunInit ==
    /\ upstream = QuietRegistry
    /\ BatchIdle
    /\ config = TestConfig
    /\ shard_of = [k \in CacheKeys |-> 1]
    /\ CacheIdle
    /\ ThreadsIdle
    /\ CliIdle

RunStep(r) ==
    /\ run' = r
    /\ UNCHANGED <<upstream, metrics, last, prev, server_vars, thread_vars, command, checked>>

\* an accepted batch begins
Accept(input, order) ==
    /\ run.stage = "idle"
    /\ validate_batch_input(input).ok
    /\ RunStep(Run(IF Queries(input, order) = <<>> THEN "returned" ELSE "running",
                   Queries(input, order), <<>>, <<>>))

\* the client runs up to its next await: it pushes the result of a finished
\* check, or is refused by validate_crate_name, or sends the next request
Proceed(query, request) ==
    /\ run.stage = "running"
    /\ RunStep(IF request = "done" THEN push_result(run, result_of(query, run.got))
               ELSE IF ~validate_crate_name(query.crate_name).ok
                    THEN Run("running", run.queries, run.results,
                             Append(run.got, Reply(validate_crate_name(query.crate_name), <<>>)))
               ELSE Run("waiting", run.queries, run.results, run.got))

Continue ==
    /\ run.stage = "running"
    /\ Proceed(run.queries[Len(run.results) + 1],
               next_request(run.queries[Len(run.results) + 1], run.got))

\* the request in flight returns, with an answer or as a timeout
Returns(query, response) ==
    /\ run.stage = "waiting"
    /\ RunStep(Run("running", run.queries, run.results,
                   Append(run.got, client_answer(next_request(query, run.got), query.crate_name,
                                          response))))

UpstreamReturns ==
    /\ run.stage = "waiting"
    /\ \E response \in Responses : Returns(run.queries[Len(run.results) + 1], response)

\* the caller takes the results; the next batch can begin
Collect ==
    /\ run.stage = "returned"
    /\ RunStep(IdleRun)

RunNext ==
    \/ \E input \in RunInputs : \E order \in IterOrders(input) : Accept(input, order)
    \/ Continue
    \/ UpstreamReturns
    \/ Collect

\* the executor runs the task whenever it can proceed, and every request
\* returns or times out
RunSpec ==
    RunInit /\ [][RunNext]_vars /\ WF_vars(Continue) /\ WF_vars(UpstreamReturns)

----------------------------------------------------------------------------
(* The cache claims *)

\* the keys of `c` whose entry has not expired at time t
Unexpired(c, t) == {k \in DOMAIN c : c[k].expires_at > t}

\* the most recent call is a get_from_cache with caching enabled
LookedUp == config.enabled /\ served.handler = "get_from_cache"

(* C11: with caching enabled, get_from_cache(key) returns, and returns a    *)
(* value exactly when the map holds an entry for key whose expires_at is    *)
(* later than the time of the call; after a miss, which includes the lookup *)
(* that found an expired entry, the map holds no entry for key.             *)
C11_LookupByExpiry ==
    LookedUp =>
        /\ served.returned
        /\ served.hit <=> (served.key \in DOMAIN cache /\ cache[served.key].expires_at > served.at)
        /\ ~served.hit => served.key \notin DOMAIN cache

(* C14: with caching configured off, the map is empty in every state, every *)
(* get_from_cache returns a miss and every set_cache returns leaving the    *)
(* map as it was.                                                           *)
C14_DisabledCacheStaysEmpty ==
    ~config.enabled =>
        /\ DOMAIN cache = {}
        /\ served.returned
        /\ served.handler = "get_from_cache" => ~served.hit /\ served.body = Ok(None)
        /\ served.handler = "set_cache" => served.found = {} /\ served.removed = {}

C14_Witness ==
    /\ ~config.enabled
    /\ served.handler = "set_cache"
    /\ served.returned
    /\ now > 0

(* C15: a set_cache that returns, with caching enabled, leaves the map it   *)
(* found, less exactly the expired entries if that map held more than       *)
(* max_entries entries and less nothing otherwise, plus the new entry under *)
(* its key, expiring ttl_seconds after the call; every other entry it       *)
(* leaves is unchanged.                                                     *)
C15_SweepOnlyOverLimit ==
    [][\A key \in CacheKeys, data \in CacheValues :
          (SetCache(key, data) /\ config.enabled /\ served'.returned) =>
              /\ DOMAIN cache' =
                     (IF Cardinality(DOMAIN cache) > config.max_entries
                      THEN Unexpired(cache, now) ELSE DOMAIN cache) \cup {key}
              /\ cache'[key] = CacheEntry(data, now + config.ttl_seconds)
              /\ \A k \in DOMAIN cache' \ {key} : cache'[k] = cache[k]]_vars

\* a set_cache found more than max_entries entries, swept an expired one and
\* kept an unexpired one under another key
C15_Witness ==
    /\ config.enabled
    /\ served.handler = "set_cache"
    /\ served.returned
    /\ Cardinality(served.found) > config.max_entries
    /\ served.removed # {}
    /\ \E k \in served.found \ served.removed : k # served.key /\ k \in DOMAIN cache

----------------------------------------------------------------------------
(* The claims about the endpoints *)

Resolution(handler) == handler \in {"get_crate", "get_crate_version"}

\* a step in which a single-item resolution passed its cache lookup
ResolutionStep ==
    /\ metrics'.cache_hits + metrics'.cache_misses > metrics.cache_hits + metrics.cache_misses
    /\ Resolution(served'.handler)

\* the step resolves the key the request before it resolved, with caching
\* enabled and before the TTL of that first resolution's entry has passed
SecondResolution ==
    /\ ResolutionStep
    /\ config.enabled
    /\ served.handler = served'.handler
    /\ served.key = served'.key
    /\ served.returned
    /\ IF served.hit
       THEN served.key \in DOMAIN cache /\ cache[served.key].expires_at > now
       ELSE now < served.at + config.ttl_seconds

SameFromCache ==
    /\ served'.returned
    /\ served'.hit
    /\ served'.calls = <<>>
    /\ served'.body = served.body

(* C12: with caching enabled, the second of two consecutive resolutions of   *)
(* the same key within the TTL window answers with the content of the first, *)
(* records a cache hit and sends no upstream request.                        *)
C12_Idempotent == [][SecondResolution => SameFromCache]_vars

(* C12 as amended: the same, when the first resolution answered 200 (the     *)
(* crate-info endpoint does not cache a failed fetch).                       *)
C12_IdempotentAfterSuccess == [][(SecondResolution /\ served.body.ok) => SameFromCache]_vars

\* a version check answered from the cache although the registry has since
\* stopped knowing the crate
C12_Witness ==
    /\ config.enabled
    /\ served.handler = "get_crate_version"
    /\ served.returned /\ served.hit /\ served.calls = <<>>
    /\ served.body.ok /\ served.body.val.exists
    /\ metrics.cache_hits = 1 /\ metrics.cache_misses = 1
    /\ upstream[NameA].exists = "notfound"

(* C13: the cache is empty unless caching is enabled, and no entry of the    *)
(* cache holds a CheckResult whose error is set.                             *)
C13_NoErrorCached ==
    /\ ~config.enabled => DOMAIN cache = {}
    /\ \A k \in DOMAIN cache : "error" \in DOMAIN cache[k].data => cache[k].data.error = <<>>

\* the key the batch executor is to consult for a result's item
ItemKey(r) ==
    version_key(r.crate_name,
                IF r.requested_version = None THEN "latest" ELSE CHOOSE v \in r.requested_version : TRUE)

\* a step in which POST /api/batch answered 200
BatchAnswered == last.entry = "none" /\ last'.entry = "http" /\ last'.status = "ok"

\* the positions of `results` whose key holds an unexpired entry of c at t
CachedItems(results, c, t) == {i \in 1..Len(results) : ItemKey(results[i]) \in Unexpired(c, t)}

(* C16: a batch consults the cache for each item: an item whose key holds an *)
(* unexpired entry counts as a cache hit and sends no upstream request, and  *)
(* every other item counts as a cache miss.                                  *)
C16_BatchConsultsCache ==
    [][BatchAnswered =>
          /\ metrics'.cache_hits =
                 metrics.cache_hits + Cardinality(CachedItems(ResultsOf(last'), cache, now))
          /\ metrics'.cache_misses =
                 metrics.cache_misses + Len(ResultsOf(last'))
                     - Cardinality(CachedItems(ResultsOf(last'), cache, now))
          /\ \A i \in CachedItems(ResultsOf(last'), cache, now) :
                 \A j \in 1..Len(last'.calls) :
                     last'.calls[j][2] # ResultsOf(last')[i].crate_name]_vars

\* what tells one answered request of a single-item or search endpoint from
\* the request before it
Answer(sv, m) ==
    <<sv.handler, sv.key, sv.at, sv.hit, sv.returned, sv.body.ok, sv.body.err, m.requests_total,
      m.cache_hits, m.cache_misses>>

\* a step in which an endpoint answered
Answered ==
    \/ Answer(served', metrics') # Answer(served, metrics) /\ served'.returned
    \/ last.entry = "none" /\ last'.entry = "http"

(* C18: every request an API endpoint answers increments requests_total      *)
(* exactly once, a search without query and an invalid batch included.       *)
C18_EveryRequestCounted ==
    [][Answered => metrics'.requests_total = metrics.requests_total + 1]_vars

----------------------------------------------------------------------------
(* The claim about the counters under concurrency *)

\* the record_request calls that have done their first fetch_add and not
\* yet returned
CountedInFlight ==
    Cardinality({t \in Threads : tasks[t].call = "record_request" /\ tasks[t].pc >= 1})

NoCounterDecreases == \A counter \in DOMAIN metrics : metrics'[counter] >= metrics[counter]

\* every record_request that has returned is in requests_total, and so is
\* every one past its first fetch_add: with no call in progress
\* requests_total is the number of completed calls
NoIncrementLost == metrics'.requests_total = finished' + CountedInFlight'

\* C17: over every interleaving of record_request, record_cache_hit and
\* record_cache_miss calls running on several threads, no counter ever
\* decreases and no increment is lost: after n completed record_request
\* calls, and none in progress, requests_total is n.
C17_CountersGrowNoneLost == [][NoCounterDecreases /\ NoIncrementLost]_vars

\* two record_request calls interleaved: both are past their first
\* fetch_add, neither has returned, and both are counted
C17_Witness ==
    /\ tasks[1].call = "record_request" /\ tasks[1].pc = 1
    /\ tasks[2].call = "record_request" /\ tasks[2].pc = 2
    /\ metrics.requests_total = 2

----------------------------------------------------------------------------
(* The claims about the client's validation and about check-multiple *)

\* the characters of [A-Za-z0-9_-] among those the model writes names with
PatternChars == {"a", "b", "A", "0", "-", "_"}

MatchesPattern(name) ==
    /\ name # <<>>
    /\ Len(name) <= MaxCrateNameLen
    /\ \A i \in 1..Len(name) : name[i] \in PatternChars

\* C19: a client call accepts the name iff it is non-empty, at most 64
\* characters long and written in [A-Za-z0-9_-] only; every other name is
\* rejected with InvalidCrateName and no request is sent for it.
C19_AcceptsPatternOnly ==
    command.cmd \in ClientOps =>
        /\ (command.error # "invalid_crate_name") <=> MatchesPattern(command.names[1])
        /\ command.error = "invalid_crate_name" => command.calls = <<>>

\* whether the existence check of the name answers Ok(true)
IsThere(name) ==
    /\ validate_crate_name(name).ok
    /\ name \in DOMAIN upstream
    /\ upstream[name].exists = "found"

Classified ==
    /\ command.summary.total_checked = Len(command.names)
    /\ command.summary.existing + command.summary.missing = command.summary.total_checked
    /\ command.summary.existing = Len(command.summary.existing_crates)
    /\ command.summary.missing = Len(command.summary.missing_crates)
    /\ \A i \in 1..Len(command.names) :
          /\ IsThere(command.names[i])
                <=> \E j \in 1..Len(command.summary.existing_crates) :
                       command.summary.existing_crates[j] = command.names[i]
          /\ ~IsThere(command.names[i])
                <=> \E j \in 1..Len(command.summary.missing_crates) :
                       command.summary.missing_crates[j] = command.names[i]

ExitsByPolicy ==
    /\ command.exit_code = 1 <=> (command.flag /\ command.summary.missing > 0)
    /\ command.exit_code # 1 => (command.ok /\ command.exit_code = 0)

\* C20: check-multiple puts every requested crate in exactly one of existing
\* and missing (an existence check that errors counts as missing), so
\* existing + missing = total_checked = the number of names; it exits with 1
\* iff fail_on_missing is set and a crate is missing, and otherwise succeeds.
C20_ExitOnlyOnMissing ==
    command.cmd = "check-multiple" => (Classified /\ ExitsByPolicy)

\* C20 for a command given at least one name; with no name the command is
\* rejected with a validation error and exits with 1
C20_ExitOnlyOnMissingOfSome ==
    command.cmd = "check-multiple" =>
        IF command.names # <<>> THEN Classified /\ ExitsByPolicy
        ELSE ~command.ok /\ command.error = "validation_error" /\ command.exit_code = 1

\* no crate of two exists, one existence check timing out, and without
\* fail_on_missing the command still succeeds
C20_Witness ==
    /\ command.cmd = "check-multiple"
    /\ Len(command.names) = 2
    /\ \E i \in 1..2 : command.names[i] \in DOMAIN upstream
                          /\ upstream[command.names[i]].exists = "timeout"
    /\ ~command.flag
    /\ command.summary.missing = 2
    /\ command.exit_code = 0

----------------------------------------------------------------------------
(* The claims about the single-item check.  The registry does not change    *)
(* in CheckSpec, so what each request of the last check was answered is     *)
(* read from `upstream`.                                                    *)

\* the existence request of the last check was sent and answered `answer`
ExistenceAnswered(answer) ==
    /\ checked.called
    /\ validate_crate_name(checked.crate_name).ok
    /\ checked.crate_name \in DOMAIN upstream
    /\ upstream[checked.crate_name].exists = answer

\* the existence call of the last check gave an error: the name was refused
\* or the request failed
ExistenceErrored ==
    /\ checked.called
    /\ \/ ~validate_crate_name(checked.crate_name).ok
       \/ ExistenceAnswered("timeout")

CallOrder == <<"exists", "info", "versions">>

VersionListCalls == {i \in 1..Len(checked.calls) : checked.calls[i][1] = "versions"}

\* C21: when the existence call answers false the check returns exists =
\* false with no error after that one request, without a metadata or a
\* version-list request; the requests of a check are always sent in the
\* order existence, metadata, version list, each at most once.
C21_MissingStopsCheck ==
    /\ ExistenceAnswered("notfound") =>
          /\ ~checked.result.exists
          /\ checked.result.error = None
          /\ checked.calls = << <<"exists", checked.crate_name>> >>
    /\ checked.called =>
          /\ Len(checked.calls) <= Len(CallOrder)
          /\ \A i \in 1..Len(checked.calls) :
                checked.calls[i] = <<CallOrder[i], checked.crate_name>>

\* a missing crate asked for with a version, where an existing crate would
\* have taken three requests
C21_Witness ==
    /\ ExistenceAnswered("notfound")
    /\ checked.requested_version = Some("1.0.0")
    /\ Len(checked.calls) = 1

\* C22: when the existence call itself errors the result has exists = false,
\* its error set, and latest_version, requested_version, version_exists and
\* info all unset.
C22_ErrorLeavesFieldsUnset ==
    ExistenceErrored =>
        /\ ~checked.result.exists
        /\ checked.result.error # None
        /\ checked.result.latest_version = None
        /\ checked.result.requested_version = None
        /\ checked.result.version_exists = None
        /\ checked.result.info = None

\* C23: for an existing crate a failed metadata fetch leaves exists = true
\* and error unset, with info and latest_version unset; a successful one
\* sets info to the metadata and latest_version to its newest version.
C23_MetadataFailureIsSoft ==
    ExistenceAnswered("found") =>
        /\ checked.result.exists
        /\ checked.result.error = None
        /\ IF upstream[checked.crate_name].info
           THEN /\ checked.result.info
                      = Some([name |-> checked.crate_name, newest_version |-> NewestVersion])
                /\ checked.result.latest_version = Some(NewestVersion)
           ELSE /\ checked.result.info = None
                /\ checked.result.latest_version = None

C23_Witness ==
    /\ ExistenceAnswered("found")
    /\ ~upstream[checked.crate_name].info
    /\ checked.result.exists
    /\ checked.result.info = None

\* C24: for an existing crate, with no requested version version_exists is
\* unset and no version list is fetched; with "latest" version_exists is
\* true and no version list is fetched; with any other string the version
\* list is fetched once, and version_exists is whether a listed version
\* equals the string, or unset if the fetch fails.
C24_VersionExists ==
    ExistenceAnswered("found") =>
        CASE checked.requested_version = None ->
                checked.result.version_exists = None /\ VersionListCalls = {}
          [] checked.requested_version = Some("latest") ->
                checked.result.version_exists = Some(TRUE) /\ VersionListCalls = {}
          [] OTHER ->
                /\ Cardinality(VersionListCalls) = 1
                /\ IF upstream[checked.crate_name].versions_ok
                   THEN checked.result.version_exists
                            = Some(\E i \in 1..Len(upstream[checked.crate_name].versions) :
                                      Some(upstream[checked.crate_name].versions[i])
                                          = checked.requested_version)
                   ELSE checked.result.version_exists = None

\* a version asked for that the fetched list does not hold
C24_Witness ==
    /\ ExistenceAnswered("found")
    /\ checked.requested_version = Some("2.0.0")
    /\ upstream[checked.crate_name].versions_ok
    /\ checked.result.version_exists = Some(FALSE)

\* C30: every result of process_single_crate_check names the queried crate;
\* error set implies exists = false; exists = false implies latest_version,
\* version_exists and info unset; latest_version is set iff info is set;
\* version_exists is set only if requested_version is set.
C30_ResultShape ==
    checked.called =>
        /\ checked.result.crate_name = checked.crate_name
        /\ checked.result.error # None => ~checked.result.exists
        /\ ~checked.result.exists =>
              /\ checked.result.latest_version = None
              /\ checked.result.version_exists = None
              /\ checked.result.info = None
        /\ checked.result.latest_version # None <=> checked.result.info # None
        /\ checked.result.version_exists # None => checked.result.requested_version # None

\* a missing crate asked for with a version: exists = false beside a
\* requested version
C30_Witness ==
    /\ checked.called
    /\ ~checked.result.exists
    /\ checked.result.error = None
    /\ checked.result.requested_version = Some("2.0.0")

----------------------------------------------------------------------------
(* The claim about the outcome counters *)

RecordRequestInProgress == \E t \in Threads : tasks[t].call = "record_request"

----------------------------------------------------------------------------
(* The claim that cache calls return.  A call whose step ends without its   *)
(* return waits for the write lock of a shard into which a reference is     *)
(* held; the reference of an expired lookup is held by the waiting call     *)
(* itself and is never dropped, so such a call never returns.               *)

\* C26: every get_from_cache call returns, alone or among other
\* get_from_cache and set_cache calls: a lookup that finds an expired entry
\* removes it and returns, and no call waits forever for the map.
C26_LookupReturns ==
    /\ served.handler = "get_from_cache" => served.returned
    /\ held = {}

----------------------------------------------------------------------------
(* The claim about the cache counters of the two resolution endpoints *)

\* a step that is a request to the crate-info or the crate-version endpoint
ResolutionRequest ==
    \/ \E name \in ServerNames, elapsed \in ElapsedMs : GetCrate(name, elapsed)
    \/ \E name \in ServerNames, version \in ServerVersions, elapsed \in ElapsedMs :
          GetCrateVersion(name, version, elapsed)

HitRecorded == metrics'.cache_hits = metrics.cache_hits + 1
MissRecorded == metrics'.cache_misses = metrics.cache_misses + 1

\* C28: every request to the crate-info or crate-version endpoint records
\* exactly one of cache hit and cache miss; a hit only when the response
\* comes from the cache with no upstream call, a miss before any upstream
\* call of the request; with caching disabled cache_hits stays 0 and
\* cache_misses counts every such request.
C28_HitOrMiss ==
    [][ResolutionRequest =>
          /\ \/ HitRecorded /\ metrics'.cache_misses = metrics.cache_misses
             \/ MissRecorded /\ metrics'.cache_hits = metrics.cache_hits
          /\ HitRecorded => (served'.hit /\ served'.calls = <<>>)
          /\ served'.calls # <<>> => MissRecorded
          /\ ~config.enabled => (metrics'.cache_hits = 0 /\ MissRecorded)]_vars

----------------------------------------------------------------------------
(* The claim about the cache keys *)

\* C29: the key of the crate-info endpoint for a path segment never equals
\* the key of the crate-version endpoint for any segments, so an endpoint
\* served from the cache is handed an entry it stored itself, which decodes:
\* a CheckResult stored by the version endpoint never reaches the info
\* endpoint, nor the other way round.
C29_KeysApart ==
    /\ served.hit => served.body.ok
    /\ served.handler = "get_crate" =>
          \A name \in ServerNames, version \in ServerVersions :
              served.key # version_key(name, version)

----------------------------------------------------------------------------
(* The claim that an accepted batch is answered in full *)

InProgress == run.stage \in {"running", "waiting"}

\* the batch call has returned one result for every query, in order
ReturnedInFull ==
    /\ run.stage = "returned"
    /\ Len(run.results) = Len(run.queries)
    /\ \A i \in 1..Len(run.queries) : run.results[i].crate_name = run.queries[i].crate_name

\* C25: provided every upstream call returns or times out, an accepted batch
\* returns, with a result for every one of its queries: no query is rejected
\* or dropped, and a call that fails or times out for one item does not stop
\* the checks of the items after it.
C25_EveryQueryAnswered ==
    /\ [](run.stage = "returned" => ReturnedInFull)
    /\ InProgress ~> ReturnedInFull

\* a batch of two whose first existence request timed out and whose second
\* query was checked nevertheless
C25_Witness ==
    /\ ReturnedInFull
    /\ Len(run.results) = 2
    /\ run.results[1].error = Some("timeout")
    /\ run.results[2].exists

====
